---- MODULE Spec2Model ----
(***************************************************************************)
(* Model of the ledger aggregator of momo_finance_agent                    *)
(* (src/momo_agent/analyzer.py) over rows produced by the message parser   *)
(* (src/momo_agent/parser.py), and of the parser itself: message bodies    *)
(* are strings and each regular expression is an operator that scans them. *)
(*                                                                         *)
(* Optional values (Python None / pandas NaN / NaT) are sequences of       *)
(* length 0; a present value v of a scalar field is <<v>>.                 *)
(* Integers that can exceed TLC's 32-bit range are two-limb numbers        *)
(* <<hi, lo>> standing for hi * Base + lo with 0 <= lo < Base; an absent   *)
(* amount is <<>>.                                                         *)
(***************************************************************************)
EXTENDS Integers, Sequences, FiniteSets, TLC

VARIABLES
    df,    \* MoMoAnalyzer.df: [rows, dtype], the ledger built by the constructor
    call,  \* the method the caller is in, with its arguments; Idle between calls
    ret,   \* what that method returned: [status, value], status "ok" or the error
    passed,   \* the caller's table that was passed to the constructor
    alias, \* which of the caller's references, "passed" and "ret", are the object self.df
    df0    \* history: the ledger as it was right after construction

vars == <<df, call, ret, passed, alias, df0>>

None == <<>>
Some(v) == <<v>>
IsNull(x) == x = <<>>

(***************************************************************************)
(* Two-limb integers and IEEE-754 binary64 rounding of integer values.     *)
(***************************************************************************)
Base == 2^26
\* 2^53 = HiMant * Base: below it every integer is a binary64 value.
HiMant == 2^27

N(n) == <<0, n>>
Zero == N(0)

NAdd(a, b) ==
    LET lo == a[2] + b[2]
    IN  IF lo >= Base THEN <<a[1] + b[1] + 1, lo - Base>> ELSE <<a[1] + b[1], lo>>

NNeg(a) == IF a[2] = 0 THEN <<0 - a[1], 0>> ELSE <<0 - a[1] - 1, Base - a[2]>>

NSub(a, b) == NAdd(a, NNeg(b))

NLt(a, b) == a[1] < b[1] \/ (a[1] = b[1] /\ a[2] < b[2])

NLe(a, b) == a = b \/ NLt(a, b)

\* Distance between consecutive binary64 values at magnitude hi * Base.
RECURSIVE Ulp(_)
Ulp(hi) == IF hi < HiMant THEN 1 ELSE 2 * Ulp(hi \div 2)

\* Round a non-negative integer to the nearest binary64, ties to even.
RoundPos(a) ==
    LET s    == Ulp(a[1])
        r    == a[2] % s
        down == a[2] - r
        up   == IF down + s = Base THEN <<a[1] + 1, 0>> ELSE <<a[1], down + s>>
    IN  IF r = 0 THEN a
        ELSE IF 2 * r < s THEN <<a[1], down>>
        ELSE IF 2 * r > s THEN up
        ELSE IF (down \div s) % 2 = 0 THEN <<a[1], down>> ELSE up

\* float(x): the binary64 nearest to the integer x.
ToFloat(a) == IF a[1] < 0 THEN NNeg(RoundPos(NNeg(a))) ELSE RoundPos(a)

\* int(x) of an integer-valued binary64: the value itself.
ToInt(a) == a

FAdd(a, b) == ToFloat(NAdd(a, b))
FSub(a, b) == ToFloat(NSub(a, b))

(***************************************************************************)
(* Calendar: timestamps are whole seconds since 1970-01-01 00:00:00.       *)
(***************************************************************************)
SecondsPerDay == 24 * 60 * 60

DaysFromCivil(y, m, d) ==
    LET yy  == IF m <= 2 THEN y - 1 ELSE y
        era == yy \div 400
        yoe == yy - era * 400
        mp  == IF m > 2 THEN m - 3 ELSE m + 9
        doy == (153 * mp + 2) \div 5 + d - 1
        doe == yoe * 365 + yoe \div 4 - yoe \div 100 + doy
    IN  era * 146097 + doe - 719468

\* <<y, m, d>> of a day number.
CivilFromDays(z0) ==
    LET z   == z0 + 719468
        era == z \div 146097
        doe == z - era * 146097
        yoe == (doe - doe \div 1460 + doe \div 36524 - doe \div 146096) \div 365
        doy == doe - (365 * yoe + yoe \div 4 - yoe \div 100)
        mp  == (5 * doy + 2) \div 153
        d   == doy - (153 * mp + 2) \div 5 + 1
        m   == IF mp < 10 THEN mp + 3 ELSE mp - 9
        y   == yoe + era * 400 + (IF m <= 2 THEN 1 ELSE 0)
    IN  <<y, m, d>>

\* pd.to_datetime of one "YYYY-MM-DD HH:MM:SS" text, given as <<Y, M, D, h, m, s>>.
ToDatetime(t) ==
    DaysFromCivil(t[1], t[2], t[3]) * SecondsPerDay + t[4] * 3600 + t[5] * 60 + t[6]

DayOf(ts) == ts \div SecondsPerDay

\* The string pandas gives a missing period ("NaT") after .astype(str).
NaTStr == <<"NaT">>

\* .dt.date
DateOf(ts) == IF IsNull(ts) THEN None ELSE Some(CivilFromDays(DayOf(ts[1])))

\* .dt.to_period("M").astype(str): "YYYY-MM", as <<Y, M>>.
MonthOf(ts) ==
    IF IsNull(ts) THEN NaTStr
    ELSE LET c == CivilFromDays(DayOf(ts[1])) IN <<c[1], c[2]>>

\* .dt.to_period("W").astype(str): "<monday>/<sunday>", as the Monday <<Y, M, D>>.
WeekOf(ts) ==
    IF IsNull(ts) THEN NaTStr
    ELSE LET day == DayOf(ts[1])
             wd  == (day + 3) % 7
         IN  CivilFromDays(day - wd)

\* .dt.year: NaN for NaT.
YearOf(ts) == IF IsNull(ts) THEN None ELSE Some(CivilFromDays(DayOf(ts[1]))[1])

(***************************************************************************)
(* Rows as the parser hands them over (ParsedTransaction.to_row).          *)
(***************************************************************************)
\* A plausible slip: the fallback names a category that does not exist.
TYPE_MAP_unknown(raw_type) ==
    CASE raw_type = "sms_received_from_momo"  -> <<"in", "transfer">>
      [] raw_type = "sms_transfer_to_number"  -> <<"out", "transfer">>
      [] raw_type = "sms_payment_to_person"   -> <<"out", "transfer">>
      [] raw_type = "sms_payment_to_merchant" -> <<"out", "merchant">>
      [] raw_type = "sms_cash_power"          -> <<"out", "utilities">>
      [] raw_type = "sms_cash_tx"             -> <<"unknown", "cash">>
      [] OTHER                                -> <<"unknown", "unknown">>

TYPE_MAP(raw_type) ==
    CASE raw_type = "sms_received_from_momo"  -> <<"in", "transfer">>
      [] raw_type = "sms_transfer_to_number"  -> <<"out", "transfer">>
      [] raw_type = "sms_payment_to_person"   -> <<"out", "transfer">>
      [] raw_type = "sms_payment_to_merchant" -> <<"out", "merchant">>
      [] raw_type = "sms_cash_power"          -> <<"out", "utilities">>
      [] raw_type = "sms_cash_tx"             -> <<"unknown", "cash">>
      [] OTHER                                -> <<"unknown", "other">>

\* One row: the fields of to_row() that the aggregator reads.
to_row(msg_id, raw_type, ts, counterparty, amt, fee) ==
    [msg_id      |-> msg_id,
     raw_type    |-> raw_type,
     timestamp   |-> ts,
     direction   |-> TYPE_MAP(raw_type)[1],
     category    |-> TYPE_MAP(raw_type)[2],
     counterparty |-> counterparty,
     amount_rwf  |-> amt,
     fee_rwf     |-> fee]

\* Column dtype pandas infers for a column of Python ints and Nones.
InferDtype(rows, col) ==
    IF \E i \in 1..Len(rows) : IsNull(rows[i][col]) THEN "float64" ELSE "int64"

\* pd.DataFrame(rows): timestamps are still ISO texts (dtype object).
DataFrame(rows) ==
    [rows  |-> rows,
     dtype |-> [timestamp  |-> "object",
                amount_rwf |-> InferDtype(rows, "amount_rwf"),
                fee_rwf    |-> InferDtype(rows, "fee_rwf")]]

(***************************************************************************)
(* MoMoAnalyzer.__init__: copy, normalise the timestamp, derive the period *)
(* columns, coerce the numeric columns (which keep their dtype).           *)
(***************************************************************************)
\* A plausible slip: timestamps that are already datetimes are converted to
\* local time (UTC+2) each time an analyzer is built.
NormaliseRowShifted(r, tsdtype) ==
    LET ts == IF IsNull(r.timestamp) THEN None
              ELSE IF tsdtype = "object" THEN Some(ToDatetime(r.timestamp[1]))
              ELSE Some(r.timestamp[1] + 2 * 3600)
    IN  [msg_id       |-> r.msg_id,
         raw_type     |-> r.raw_type,
         timestamp    |-> ts,
         direction    |-> r.direction,
         category     |-> r.category,
         counterparty |-> r.counterparty,
         amount_rwf   |-> r.amount_rwf,
         fee_rwf      |-> r.fee_rwf,
         date         |-> DateOf(ts),
         month        |-> MonthOf(ts),
         week         |-> WeekOf(ts),
         year         |-> YearOf(ts)]

NormaliseRow(r, tsdtype) ==
    LET ts == IF IsNull(r.timestamp) THEN None
              ELSE IF tsdtype = "object" THEN Some(ToDatetime(r.timestamp[1]))
              ELSE r.timestamp
    IN  [msg_id       |-> r.msg_id,
         raw_type     |-> r.raw_type,
         timestamp    |-> ts,
         direction    |-> r.direction,
         category     |-> r.category,
         counterparty |-> r.counterparty,
         amount_rwf   |-> r.amount_rwf,
         fee_rwf      |-> r.fee_rwf,
         date         |-> DateOf(ts),
         month        |-> MonthOf(ts),
         week         |-> WeekOf(ts),
         year         |-> YearOf(ts)]

MoMoAnalyzer(frame) ==
    [rows  |-> [i \in 1..Len(frame.rows) |-> NormaliseRow(frame.rows[i], frame.dtype.timestamp)],
     dtype |-> [timestamp  |-> "datetime64",
                amount_rwf |-> frame.dtype.amount_rwf,
                fee_rwf    |-> frame.dtype.fee_rwf]]

(***************************************************************************)
(* Column helpers.                                                         *)
(***************************************************************************)
Column(rows, col) == [i \in 1..Len(rows) |-> rows[i][col]]

\* df[df["direction"] == direction]
SelectDirection(rows, direction) ==
    SelectSeq(rows, LAMBDA r : r.direction = direction)

\* Series.sum(skipna=True): exact for int64; for float64 the missing values
\* count as 0 and every partial sum is rounded to binary64.
RECURSIVE SeriesSumFrom(_, _, _, _)
SeriesSumFrom(vals, i, acc, dtype) ==
    IF i > Len(vals) THEN acc
    ELSE LET v    == IF IsNull(vals[i]) THEN Zero ELSE vals[i]
             next == IF dtype = "float64" THEN FAdd(acc, v) ELSE NAdd(acc, v)
         IN  SeriesSumFrom(vals, i + 1, next, dtype)

SeriesSum(vals, dtype) == SeriesSumFrom(vals, 1, Zero, dtype)

\* One group's sum in groupby(...).sum(): compensated (Kahan) summation that
\* skips missing values; in int64 the same steps are exact.
RECURSIVE GroupSumFrom(_, _, _, _, _)
GroupSumFrom(vals, i, sumx, comp, dtype) ==
    IF i > Len(vals) THEN sumx
    ELSE IF IsNull(vals[i]) THEN GroupSumFrom(vals, i + 1, sumx, comp, dtype)
    ELSE IF dtype = "float64"
         THEN LET y == FSub(vals[i], comp)
                  t == FAdd(sumx, y)
                  c == FSub(FSub(t, sumx), y)
              IN  GroupSumFrom(vals, i + 1, t, c, dtype)
         ELSE GroupSumFrom(vals, i + 1, NAdd(sumx, vals[i]), comp, dtype)

GroupSum(vals, dtype) == GroupSumFrom(vals, 1, Zero, Zero, dtype)

\* a - b on two aggregated columns: int64 only when both are int64.
ColSub(a, adtype, b, bdtype) ==
    IF adtype = "int64" /\ bdtype = "int64" THEN NSub(a, b)
    ELSE FSub(ToFloat(a), ToFloat(b))

SubDtype(adtype, bdtype) ==
    IF adtype = "int64" /\ bdtype = "int64" THEN "int64" ELSE "float64"

(***************************************************************************)
(* MoMoAnalyzer.summary                                                    *)
(***************************************************************************)
summary(d) ==
    LET income     == SelectDirection(d.rows, "in")
        expense    == SelectDirection(d.rows, "out")
        total_in   == ToFloat(SeriesSum(Column(income, "amount_rwf"), d.dtype.amount_rwf))
        total_out  == ToFloat(SeriesSum(Column(expense, "amount_rwf"), d.dtype.amount_rwf))
        total_fees == ToFloat(SeriesSum(Column(d.rows, "fee_rwf"), d.dtype.fee_rwf))
        net        == FSub(FSub(total_in, total_out), total_fees)
    IN  [total_in_rwf   |-> ToInt(total_in),
         total_out_rwf  |-> ToInt(total_out),
         total_fees_rwf |-> ToInt(total_fees),
         net_rwf        |-> ToInt(net),
         tx_count       |-> Len(d.rows)]

(***************************************************************************)
(* MoMoAnalyzer.period_summary                                             *)
(***************************************************************************)
Periods == {"week", "month", "year"}

\* A missing period key: NaN in the year column, the text "NaT" otherwise.
KeyMissing(period, k) == IF period = "year" THEN IsNull(k) ELSE Len(k) = 1

\* Order of two present keys of the same period (lexicographic on the digits).
RECURSIVE TupleLt(_, _, _)
TupleLt(a, b, i) ==
    IF i > Len(a) THEN FALSE
    ELSE IF a[i] # b[i] THEN a[i] < b[i]
    ELSE TupleLt(a, b, i + 1)

\* Sort order of the group keys: ascending, the missing key last.
KeyLt(period, a, b) ==
    IF KeyMissing(period, a) THEN FALSE
    ELSE IF KeyMissing(period, b) THEN TRUE
    ELSE TupleLt(a, b, 1)

RECURSIVE SortKeys(_, _)
SortKeys(period, S) ==
    IF S = {} THEN <<>>
    ELSE LET m == CHOOSE k \in S : \A o \in S \ {k} : KeyLt(period, k, o)
         IN  <<m>> \o SortKeys(period, S \ {m})

\* groupby(period, dropna=False): every key that occurs, missing ones included.
GroupKeys(rows, period) == {rows[i][period] : i \in 1..Len(rows)}

\* df["amount_rwf"].where(df["direction"] == direction, 0)
AmountWhere(r, direction) == IF r.direction = direction THEN r.amount_rwf ELSE Zero

\* df["fee_rwf"].fillna(0)
FeeFilled(r) == IF IsNull(r.fee_rwf) THEN Zero ELSE r.fee_rwf

PeriodRow(d, period, k) ==
    LET g       == SelectSeq(d.rows, LAMBDA r : r[period] = k)
        adt     == d.dtype.amount_rwf
        fdt     == d.dtype.fee_rwf
        income  == GroupSum([i \in 1..Len(g) |-> AmountWhere(g[i], "in")], adt)
        expense == GroupSum([i \in 1..Len(g) |-> AmountWhere(g[i], "out")], adt)
        fees    == GroupSum([i \in 1..Len(g) |-> FeeFilled(g[i])], fdt)
        net     == ColSub(ColSub(income, adt, expense, adt), SubDtype(adt, adt), fees, fdt)
    IN  [key         |-> k,
         tx_count    |-> Len(g),
         income_rwf  |-> ToInt(income),
         expense_rwf |-> ToInt(expense),
         fees_rwf    |-> ToInt(fees),
         net_rwf     |-> ToInt(net)]

\* The table built once the period is accepted (groupby, agg, sort_values).
PeriodTable(d, period) ==
    LET keys == SortKeys(period, GroupKeys(d.rows, period))
    IN  [i \in 1..Len(keys) |-> PeriodRow(d, period, keys[i])]

Ok(v) == [status |-> "ok", value |-> v]
Raise(e) == [status |-> e, value |-> None]

\* A plausible slip: an unknown period falls back to the default, "month".
period_summary_default(d, period) ==
    IF period \notin Periods THEN Ok(PeriodTable(d, "month")) ELSE Ok(PeriodTable(d, period))

period_summary(d, period) ==
    IF period \notin Periods THEN Raise("ValueError") ELSE Ok(PeriodTable(d, period))

(***************************************************************************)
(* MoMoAnalyzer.top_counterparties and category_breakdown                  *)
(***************************************************************************)
\* The group labels the model uses, in the order groupby sorts them (text order).
LabelOrder ==
    <<"Adam", "Unknown", "Zed", "cash", "merchant", "other", "transfer", "utilities">>

LabelRank(name) == CHOOSE i \in 1..Len(LabelOrder) : LabelOrder[i] = name

\* df[col].fillna(label)
LabelOf(r, col, fill) == IF col = "counterparty"
                         THEN (IF IsNull(r.counterparty) THEN fill ELSE r.counterparty[1])
                         ELSE r.category

head(s, n) == SubSeq(s, 1, IF n < Len(s) THEN n ELSE Len(s))

\* groupby(col)["amount_rwf"].sum(): one <<label, sum>> per label, labels ascending.
GroupedAmounts(rows, col, fill, dtype) ==
    LET labels == {LabelOf(rows[i], col, fill) : i \in 1..Len(rows)}
        sumOf(l) == GroupSum(Column(SelectSeq(rows, LAMBDA r : LabelOf(r, col, fill) = l),
                                    "amount_rwf"), dtype)
        ranked == {LabelRank(l) : l \in labels}
        nth(i) == CHOOSE k \in ranked : Cardinality({j \in ranked : j < k}) = i - 1
    IN  [i \in 1..Cardinality(labels) |->
            [label |-> LabelOrder[nth(i)], amount_rwf |-> sumOf(LabelOrder[nth(i)])]]

IsDescending(s) == \A i \in 1..(Len(s) - 1) : NLe(s[i + 1].amount_rwf, s[i].amount_rwf)

\* A plausible slip: the ascending default of sort_values is left in place.
SortValuesAsc(g) ==
    {s \in [1..Len(g) -> {g[i] : i \in 1..Len(g)}] :
        /\ \A i, j \in 1..Len(g) : i # j => s[i] # s[j]
        /\ \A i \in 1..(Len(g) - 1) : NLe(s[i].amount_rwf, s[i + 1].amount_rwf)}

\* sort_values(ascending=False) with the default kind "quicksort": the result is
\* in non-increasing order; the order of equal sums is not specified.
SortValuesDesc(g) ==
    {s \in [1..Len(g) -> {g[i] : i \in 1..Len(g)}] :
        /\ \A i, j \in 1..Len(g) : i # j => s[i] # s[j]
        /\ IsDescending(s)}

IntAmounts(s) == [i \in 1..Len(s) |-> [label |-> s[i].label, amount_rwf |-> ToInt(s[i].amount_rwf)]]

\* The tables top_counterparties(direction, n) can return.
top_counterparties(d, direction, n) ==
    LET sel == SelectDirection(d.rows, direction)
        g   == GroupedAmounts(sel, "counterparty", "Unknown", d.dtype.amount_rwf)
    IN  {IntAmounts(head(s, n)) : s \in SortValuesDesc(g)}

\* The tables category_breakdown(direction) can return.
category_breakdown(d, direction) ==
    LET sel == SelectDirection(d.rows, direction)
        g   == GroupedAmounts(sel, "category", "other", d.dtype.amount_rwf)
    IN  {IntAmounts(s) : s \in SortValuesDesc(g)}

(***************************************************************************)
(* MoMoAnalyzer.filter_range and transactions                              *)
(***************************************************************************)
\* A plausible slip: errors="coerce", as the constructor uses, turns an
\* unparsable bound into NaT instead of raising.
BoundToDatetimeCoerce(text) ==
    CASE text = "2024-12-30"          -> [ok |-> TRUE, value |-> Some(ToDatetime(<<2024, 12, 30, 0, 0, 0>>))]
      [] text = "2025-01-10 14:30:00" -> [ok |-> TRUE, value |-> Some(ToDatetime(<<2025, 1, 10, 14, 30, 0>>))]
      [] text = "2025-02-01"          -> [ok |-> TRUE, value |-> Some(ToDatetime(<<2025, 2, 1, 0, 0, 0>>))]
      [] OTHER                        -> [ok |-> TRUE, value |-> None]

\* pd.to_datetime of a bound text: a timestamp, NaT (the empty text and the
\* missing-value markers parse to NaT without an error), or a ValueError.
BoundToDatetime(text) ==
    CASE text = "2024-12-30"          -> [ok |-> TRUE, value |-> Some(ToDatetime(<<2024, 12, 30, 0, 0, 0>>))]
      [] text = "2025-01-10 14:30:00" -> [ok |-> TRUE, value |-> Some(ToDatetime(<<2025, 1, 10, 14, 30, 0>>))]
      [] text = "2025-02-01"          -> [ok |-> TRUE, value |-> Some(ToDatetime(<<2025, 2, 1, 0, 0, 0>>))]
      [] text = ""                    -> [ok |-> TRUE, value |-> None]
      [] text = "NaT"                 -> [ok |-> TRUE, value |-> None]
      [] OTHER                        -> [ok |-> FALSE, value |-> None]

\* Python truthiness of an Optional[str] argument.
Truthy(arg) == ~IsNull(arg) /\ arg[1] # ""

\* df[df["timestamp"] >= bound]: a comparison with NaT on either side is False.
KeepFrom(rows, bound) ==
    SelectSeq(rows, LAMBDA r : ~IsNull(r.timestamp) /\ ~IsNull(bound) /\ r.timestamp[1] >= bound[1])

\* A plausible slip: the end bound is exclusive.
KeepBefore(rows, bound) ==
    SelectSeq(rows, LAMBDA r : ~IsNull(r.timestamp) /\ ~IsNull(bound) /\ r.timestamp[1] < bound[1])

KeepUntil(rows, bound) ==
    SelectSeq(rows, LAMBDA r : ~IsNull(r.timestamp) /\ ~IsNull(bound) /\ r.timestamp[1] <= bound[1])

filter_range(d, start, end) ==
    LET s  == IF Truthy(start) THEN BoundToDatetime(start[1]) ELSE [ok |-> TRUE, value |-> None]
        r1 == IF Truthy(start) /\ s.ok THEN KeepFrom(d.rows, s.value) ELSE d.rows
        e  == IF Truthy(end) THEN BoundToDatetime(end[1]) ELSE [ok |-> TRUE, value |-> None]
        r2 == IF Truthy(end) /\ e.ok THEN KeepUntil(r1, e.value) ELSE r1
    IN  IF ~s.ok THEN Raise("ValueError")
        ELSE IF ~e.ok THEN Raise("ValueError")
        ELSE Ok([rows |-> r2, dtype |-> d.dtype])

transactions(d) == [rows |-> d.rows, dtype |-> d.dtype]

(***************************************************************************)
(* parser.py: message bodies are strings; Ch(s, i) is the i-th character,  *)
(* the empty string outside the body.                                      *)
(***************************************************************************)
Ch(s, i) == IF i >= 1 /\ i <= Len(s) THEN SubSeq(s, i, i) ELSE ""

DigitChars == "0123456789"
Uppers == "ABCDEFGHIJKLMNOPQRSTUVWXYZ"
Lowers == "abcdefghijklmnopqrstuvwxyz"

DigitSet == {Ch(DigitChars, i) : i \in 1..10}
AlphaSet == {Ch(Uppers, i) : i \in 1..26} \cup {Ch(Lowers, i) : i \in 1..26}

\* \s, [A-Za-z0-9], [\d,], [A-Za-z0-9\-] and [A-Za-z0-9 &\-\.\'] on the
\* characters of the model.
SpaceSet == {" ", "\t", "\n", "\r"}
AlnumSet == DigitSet \cup AlphaSet
DigitOrCommaSet == DigitSet \cup {","}
IdCharSet == AlnumSet \cup {"-"}
NameCharSet == AlnumSet \cup {" ", "&", "-", ".", "'"}

IsDigit(c) == c \in DigitSet
IsSpace(c) == c \in SpaceSet
IsWord(c) == c \in AlnumSet \/ c = "_"

DigitVal(c) == CHOOSE d \in 0..9 : Ch(DigitChars, d + 1) = c

\* re.IGNORECASE: characters are compared in lower case.
UpperSet == {Ch(Uppers, i) : i \in 1..26}
LowerOf == [c \in UpperSet |-> Ch(Lowers, CHOOSE i \in 1..26 : Ch(Uppers, i) = c)]

Lower(c) == IF c \in UpperSet THEN LowerOf[c] ELSE c

\* " ".join(sms.split()): runs of whitespace become one space, none at the
\* ends.  NormChar is what the i-th character contributes to the result.
NormChar(s, i) ==
    IF ~IsSpace(Ch(s, i)) THEN Ch(s, i)
    ELSE IF /\ i > 1 /\ ~IsSpace(Ch(s, i - 1))
            /\ \E j \in (i + 1)..Len(s) : ~IsSpace(Ch(s, j))
         THEN " "
         ELSE ""

RECURSIVE NormRange(_, _, _)
NormRange(s, lo, hi) ==
    IF lo > hi THEN ""
    ELSE IF lo = hi THEN NormChar(s, lo)
    ELSE LET mid == (lo + hi) \div 2
         IN  NormRange(s, lo, mid) \o NormRange(s, mid + 1, hi)

Normalise(sms) == NormRange(sms, 1, Len(sms))

\* A greedy run X* from position i: the first position at or after i whose
\* character is not in the class.
RECURSIVE FirstOutside(_, _, _, _)
FirstOutside(s, lo, hi, class) ==
    IF lo > hi THEN lo
    ELSE IF lo = hi THEN (IF Ch(s, lo) \in class THEN lo + 1 ELSE lo)
    ELSE LET mid == (lo + hi) \div 2
         IN  CHOOSE r \in {IF j <= mid THEN j ELSE FirstOutside(s, mid + 1, hi, class) :
                              j \in {FirstOutside(s, lo, mid, class)}} : TRUE

RunEnd(s, i, class) == FirstOutside(s, i, Len(s), class)

\* A literal, case-insensitive, at position i (w is given in lower case).
WordAt(s, i, w) ==
    /\ i >= 1
    /\ i + Len(w) - 1 <= Len(s)
    /\ \A k \in 1..Len(w) : Lower(Ch(s, i + k - 1)) = Ch(w, k)

\* \d[\d,]*(?:\.\d+)?\s*RWF anchored at i.  The runs are greedy and what
\* follows a run can never start inside it, so there is one way to match.
NumberAt(s, i) ==
    IF ~IsDigit(Ch(s, i)) THEN None
    ELSE LET k == RunEnd(s, i + 1, DigitOrCommaSet)
             m == IF Ch(s, k) = "." THEN RunEnd(s, k + 1, DigitSet) ELSE k
             e == IF m > k + 1 THEN m ELSE k
             r == RunEnd(s, e, SpaceSet)
         IN  IF WordAt(s, r, "rwf")
             THEN Some([start |-> i, text |-> SubSeq(s, i, e - 1), stop |-> r + 3])
             ELSE None

\* \s*[: ]\s* anchored at p: the position after it, 0 when it does not match.
SepEnd(s, p) ==
    LET q == RunEnd(s, p, SpaceSet)
    IN  IF Ch(s, q) = ":" THEN RunEnd(s, q + 1, SpaceSet)
        ELSE IF \E j \in p..(q - 1) : Ch(s, j) = " " THEN q
        ELSE 0

\* <label>\s*[: ]\s*<number>\s*RWF anchored at i.
LabelledAt(s, i, label) ==
    IF ~WordAt(s, i, label) THEN None
    ELSE LET p == SepEnd(s, i + Len(label))
         IN  IF p = 0 THEN None ELSE NumberAt(s, p)

FeeAt(s, i) == LabelledAt(s, i, "fee")
BalanceAt(s, i) == LabelledAt(s, i, "balance")

\* The digits of x before the decimal point, commas dropped, as an integer.
Times10(a) ==
    LET a2 == NAdd(a, a)
        a8 == NAdd(NAdd(a2, a2), NAdd(a2, a2))
    IN  NAdd(a8, a2)

RECURSIVE IntPartFrom(_, _, _)
IntPartFrom(x, i, acc) ==
    IF i > Len(x) \/ Ch(x, i) = "." THEN acc
    ELSE IF Ch(x, i) = "," THEN IntPartFrom(x, i + 1, acc)
    ELSE LET next == {NAdd(Times10(acc), N(DigitVal(Ch(x, i))))}
         IN  CHOOSE r \in {IntPartFrom(x, i + 1, v) : v \in next} : TRUE

\* How many digits the integer part has from its first non-zero digit on.
SigDigits(x) ==
    LET stop  == CHOOSE j \in 1..(Len(x) + 1) :
                     /\ \A k \in 1..(j - 1) : Ch(x, k) # "."
                     /\ j > Len(x) \/ Ch(x, j) = "."
        first == {i \in 1..(stop - 1) : Ch(x, i) \notin {"0", ","}}
    IN  Cardinality({i \in 1..(stop - 1) :
                        /\ IsDigit(Ch(x, i))
                        /\ \E f \in first : f <= i})

\* float(x) is inf from 310 digits on, and int(inf) raises OverflowError.
InfDigits == 310

\* _to_int on a matched number: int(float(x)) with the commas removed.  The
\* text always is a float literal, so ValueError cannot happen; a fraction is
\* truncated (fractions of the model have at most two digits, where the
\* nearest double of the text lies below the next integer); the integer part
\* is rounded to binary64.
to_int(x) ==
    IF SigDigits(x) >= InfDigits THEN Raise("OverflowError")
    ELSE Ok(ToInt(ToFloat(IntPartFrom(x, 1, Zero))))

\* \d{4}-\d{2}-\d{2}\s+\d{2}:\d{2}:\d{2} anchored at i: the six numbers.
DigitsAt(s, i, n) == \A k \in 0..(n - 1) : IsDigit(Ch(s, i + k))

Num2(s, i) == 10 * DigitVal(Ch(s, i)) + DigitVal(Ch(s, i + 1))

DateTimeAt(s, i) ==
    LET q == RunEnd(s, i + 10, SpaceSet)
    IN  IF /\ DigitsAt(s, i, 4) /\ Ch(s, i + 4) = "-"
           /\ DigitsAt(s, i + 5, 2) /\ Ch(s, i + 7) = "-"
           /\ DigitsAt(s, i + 8, 2) /\ q > i + 10
           /\ DigitsAt(s, q, 2) /\ Ch(s, q + 2) = ":"
           /\ DigitsAt(s, q + 3, 2) /\ Ch(s, q + 5) = ":"
           /\ DigitsAt(s, q + 6, 2)
        THEN Some(<<100 * Num2(s, i) + Num2(s, i + 2), Num2(s, i + 5), Num2(s, i + 8),
                    Num2(s, q), Num2(s, q + 3), Num2(s, q + 6)>>)
        ELSE None

\* dtparser.parse on the matched text raises for a date or time that does
\* not exist, and _parse_datetime turns every exception into None.
ValidDateTime(t) ==
    /\ t[1] >= 1 /\ t[2] \in 1..12 /\ t[3] >= 1
    /\ CivilFromDays(DaysFromCivil(t[1], t[2], t[3])) = <<t[1], t[2], t[3]>>
    /\ t[4] <= 23 /\ t[5] <= 59 /\ t[6] <= 59

\* A run X+ from p: its text, None when it is empty.
RunText(s, p, class) ==
    LET e == RunEnd(s, p, class)
    IN  IF p >= 1 /\ e > p THEN Some(SubSeq(s, p, e - 1)) ELSE None

\* TxId\s*[: ]\s*([A-Za-z0-9]+)
TxIdAt(s, i) ==
    IF ~WordAt(s, i, "txid") THEN None
    ELSE LET p == SepEnd(s, i + 4) IN IF p = 0 THEN None ELSE RunText(s, p, AlnumSet)

\* <FT or ET>\s*Id\s*[: ]\s*([A-Za-z0-9\-]+)
TwoWordIdAt(s, i, first) ==
    IF ~WordAt(s, i, first) THEN None
    ELSE LET q == RunEnd(s, i + 2, SpaceSet)
         IN  IF ~WordAt(s, q, "id") THEN None
             ELSE LET p == SepEnd(s, q + 2)
                  IN  IF p = 0 THEN None ELSE RunText(s, p, IdCharSet)

FtIdAt(s, i) == TwoWordIdAt(s, i, "ft")
EtIdAt(s, i) == TwoWordIdAt(s, i, "et")

\* \((\d{6,})\)
PhoneAt(s, i) ==
    LET e == RunEnd(s, i + 1, DigitSet)
    IN  IF Ch(s, i) = "(" /\ e - (i + 1) >= 6 /\ Ch(s, e) = ")"
        THEN Some(SubSeq(s, i + 1, e - 1)) ELSE None

\* \s+<word>\b anchored at e.
SpacedWordAt(s, e, w) ==
    LET r == RunEnd(s, e, SpaceSet)
    IN  r > e /\ WordAt(s, r, w) /\ ~IsWord(Ch(s, r + Len(w)))

\* What ends a name: (?:\s*\(|\s+was\b|\s+with\b|\.|,) after "to",
\* (?:\s*\(|\s+at\b|\.|,) after "from".
NameEndsAt(s, e, keyword) ==
    \/ Ch(s, RunEnd(s, e, SpaceSet)) = "("
    \/ Ch(s, e) \in {".", ","}
    \/ keyword = "to" /\ (SpacedWordAt(s, e, "was") \/ SpacedWordAt(s, e, "with"))
    \/ keyword = "from" /\ SpacedWordAt(s, e, "at")

\* The lazy name ([...]+?) that starts at p: the shortest one that is
\* followed by an end; its stop position, 0 when there is none.
NameStop(s, p, keyword) ==
    LET stops == {e \in (p + 1)..RunEnd(s, p, NameCharSet) : NameEndsAt(s, e, keyword)}
    IN  IF stops = {} THEN 0 ELSE CHOOSE e \in stops : \A o \in stops : e <= o

\* \b<keyword>\s+<name><end> anchored at i: \s+ is greedy and gives back
\* spaces (which a name may start with) only when the longer run fails.
NameAt(s, i, keyword) ==
    LET q      == RunEnd(s, i + Len(keyword), SpaceSet)
        starts == {p \in (i + Len(keyword) + 1)..q : NameStop(s, p, keyword) # 0}
    IN  IF IsWord(Ch(s, i - 1)) \/ ~WordAt(s, i, keyword) \/ starts = {} THEN None
        ELSE LET p == CHOOSE x \in starts : \A o \in starts : o <= x
             IN  Some(SubSeq(s, p, NameStop(s, p, keyword) - 1))

ToAt(s, i) == NameAt(s, i, "to")
FromAt(s, i) == NameAt(s, i, "from")

\* Pattern.search: the match at the leftmost position that has one.  Leftmost
\* is that position, 0 when no position has a match; it is bound once, as the
\* member of a one-element set.
Leftmost(hits) == IF hits = {} THEN 0 ELSE CHOOSE i \in hits : \A j \in hits : i <= j

AMOUNT_RE(s) ==
    CHOOSE m \in {IF i = 0 THEN None ELSE NumberAt(s, i) :
                     i \in {Leftmost({j \in 1..Len(s) : ~IsNull(NumberAt(s, j))})}} : TRUE

FEE_RE(s) ==
    CHOOSE m \in {IF i = 0 THEN None ELSE FeeAt(s, i) :
                     i \in {Leftmost({j \in 1..Len(s) : ~IsNull(FeeAt(s, j))})}} : TRUE

BAL_RE(s) ==
    CHOOSE m \in {IF i = 0 THEN None ELSE BalanceAt(s, i) :
                     i \in {Leftmost({j \in 1..Len(s) : ~IsNull(BalanceAt(s, j))})}} : TRUE

DATETIME_RE(s) ==
    CHOOSE m \in {IF i = 0 THEN None ELSE DateTimeAt(s, i) :
                     i \in {Leftmost({j \in 1..Len(s) : ~IsNull(DateTimeAt(s, j))})}} : TRUE

TXID_RE(s) ==
    CHOOSE m \in {IF i = 0 THEN None ELSE TxIdAt(s, i) :
                     i \in {Leftmost({j \in 1..Len(s) : ~IsNull(TxIdAt(s, j))})}} : TRUE

FTID_RE(s) ==
    CHOOSE m \in {IF i = 0 THEN None ELSE FtIdAt(s, i) :
                     i \in {Leftmost({j \in 1..Len(s) : ~IsNull(FtIdAt(s, j))})}} : TRUE

ETID_RE(s) ==
    CHOOSE m \in {IF i = 0 THEN None ELSE EtIdAt(s, i) :
                     i \in {Leftmost({j \in 1..Len(s) : ~IsNull(EtIdAt(s, j))})}} : TRUE

TO_RE(s) ==
    CHOOSE m \in {IF i = 0 THEN None ELSE ToAt(s, i) :
                     i \in {Leftmost({j \in 1..Len(s) : ~IsNull(ToAt(s, j))})}} : TRUE

FROM_RE(s) ==
    CHOOSE m \in {IF i = 0 THEN None ELSE FromAt(s, i) :
                     i \in {Leftmost({j \in 1..Len(s) : ~IsNull(FromAt(s, j))})}} : TRUE

PHONE_RE(s) ==
    CHOOSE m \in {IF i = 0 THEN None ELSE PhoneAt(s, i) :
                     i \in {Leftmost({j \in 1..Len(s) : ~IsNull(PhoneAt(s, j))})}} : TRUE

parse_datetime(text) ==
    LET m == DATETIME_RE(text)
    IN  IF ~IsNull(m) /\ ValidDateTime(m[1]) THEN m ELSE None

\* str.strip(" .,-")
Strip(name) ==
    LET keep == {i \in 1..Len(name) : Ch(name, i) \notin {" ", ".", ",", "-"}}
    IN  IF keep = {} THEN ""
        ELSE SubSeq(name, CHOOSE i \in keep : \A o \in keep : i <= o,
                          CHOOSE i \in keep : \A o \in keep : o <= i)

Stripped(m) == IF IsNull(m) THEN None ELSE Some(Strip(m[1]))

\* The counterparty: "to" for outgoing, "from" for incoming, else "to" first.
Counterparty(s, direction) ==
    IF direction = "out" THEN Stripped(TO_RE(s))
    ELSE IF direction = "in" THEN Stripped(FROM_RE(s))
    ELSE IF ~IsNull(TO_RE(s)) THEN Stripped(TO_RE(s))
    ELSE Stripped(FROM_RE(s))

\* amt = _to_int(m.group(...)) if the pattern matched, else None.
Extracted(m) == IF IsNull(m) THEN Ok(None) ELSE to_int(m[1].text)

\* The body of parse_message once sms_norm is known.
ParseNormalised(msg_id, raw_type, sms, sms_norm, amt, fee, bal) ==
    LET direction == TYPE_MAP(raw_type)[1]
        category  == TYPE_MAP(raw_type)[2]
    IN  IF amt.status # "ok" THEN Raise(amt.status)
        ELSE IF fee.status # "ok" THEN Raise(fee.status)
        ELSE IF bal.status # "ok" THEN Raise(bal.status)
        ELSE Ok([msg_id       |-> msg_id,
                 raw_type     |-> raw_type,
                 timestamp    |-> parse_datetime(sms_norm),
                 direction    |-> direction,
                 category     |-> category,
                 counterparty |-> Counterparty(sms_norm, direction),
                 msisdn       |-> PHONE_RE(sms_norm),
                 amount_rwf   |-> amt.value,
                 fee_rwf      |-> fee.value,
                 balance_rwf  |-> bal.value,
                 txid         |-> TXID_RE(sms_norm),
                 ftid         |-> FTID_RE(sms_norm),
                 etid         |-> ETID_RE(sms_norm),
                 raw_sms      |-> sms])

\* parse_message: the ParsedTransaction, or the exception that escapes.
\* (Each intermediate value is bound once, as a member of a one-element set.)
parse_message(msg_id, raw_type, sms) ==
    CHOOSE pt \in {ParseNormalised(msg_id, raw_type, sms, sms_norm, amt, fee, bal) :
                      sms_norm \in {Normalise(sms)},
                      amt \in {Extracted(AMOUNT_RE(Normalise(sms)))},
                      fee \in {Extracted(FEE_RE(Normalise(sms)))},
                      bal \in {Extracted(BAL_RE(Normalise(sms)))}} : TRUE

(***************************************************************************)
(* MoMoAnalyzer.from_json on the messages of the payload file.  A message  *)
(* is [id, type, sms]; a key the JSON object lacks is None.                *)
(***************************************************************************)
\* parse_message(msg_id=int(m.get("id")), raw_type=str(m.get("type", "unknown")),
\*               sms=str(m.get("sms", ""))): int(None) raises TypeError.
ParsedOf(m) ==
    IF IsNull(m.id) THEN Raise("TypeError")
    ELSE parse_message(m.id[1],
                       IF IsNull(m.type) THEN "unknown" ELSE m.type[1],
                       IF IsNull(m.sms) THEN "" ELSE m.sms[1])

\* pt.to_row(), the fields the aggregator reads.
RowOf(pt) ==
    to_row(pt.msg_id, pt.raw_type, pt.timestamp, pt.counterparty, pt.amount_rwf, pt.fee_rwf)

\* The loop over the messages: the rows in input order, or the exception of
\* the first message that raises one, which ends the loop.
PayloadRows(payload) ==
    LET RowsOf(parsed) ==
            LET failed == {i \in 1..Len(payload) : parsed[i].status # "ok"}
            IN  IF failed # {}
                THEN Raise(parsed[CHOOSE i \in failed : \A o \in failed : i <= o].status)
                ELSE Ok([i \in 1..Len(payload) |-> RowOf(parsed[i].value)])
    IN  CHOOSE rows \in {RowsOf(parsed) :
                           parsed \in {[i \in 1..Len(payload) |-> ParsedOf(payload[i])]}} : TRUE

\* pd.DataFrame([]) has no columns, and the constructor's
\* self.df["timestamp"] then raises KeyError.
from_json_payload(payload) ==
    CHOOSE r \in {IF rows.status # "ok" THEN rows
                  ELSE IF rows.value = <<>> THEN Raise("KeyError")
                  ELSE Ok(MoMoAnalyzer(DataFrame(rows.value))) :
                  rows \in {PayloadRows(payload)}} : TRUE

(***************************************************************************)
(* Inputs of the model.                                                    *)
(***************************************************************************)
MaxLen == 3
MaxN == 2
MaxBatch == 2

\* 2^53 and 2^53 + 2: amounts the parser can produce (int(float(digits))).
Big == <<HiMant, 0>>
Big2 == <<HiMant, 2>>

TA == Some(<<2024, 12, 29, 23, 59, 59>>)
TB == Some(<<2024, 12, 30, 0, 0, 0>>)
TC == Some(<<2025, 1, 10, 14, 30, 0>>)
TD == Some(<<2025, 2, 1, 9, 0, 0>>)

Msg(raw_type, ts, counterparty, amt, fee) ==
    [raw_type |-> raw_type, ts |-> ts, counterparty |-> counterparty, amt |-> amt, fee |-> fee]

SummaryMessages ==
    {Msg("sms_received_from_momo", TC, Some("Adam"), N(5000), N(50)),
     Msg("sms_payment_to_person", TC, Some("Zed"), N(1000), N(0)),
     Msg("sms_payment_to_merchant", TD, Some("Zed"), N(2000), N(0)),
     Msg("sms_received_from_momo", TC, None, Big2, N(1)),
     Msg("sms_received_from_momo", TD, Some("Adam"), N(1), None),
     Msg("sms_cash_tx", None, None, N(2000), N(50)),
     Msg("sms_promo", None, None, None, None)}

PeriodMessages ==
    {Msg("sms_received_from_momo", TA, Some("Adam"), N(5000), N(50)),
     Msg("sms_received_from_momo", TB, Some("Adam"), N(1), N(0)),
     Msg("sms_cash_power", TC, Some("Zed"), N(2000), None),
     Msg("sms_received_from_momo", TD, None, Big2, N(1)),
     Msg("sms_received_from_momo", None, None, N(1000), N(50)),
     Msg("sms_cash_tx", None, None, None, None)}

TopMessages ==
    {Msg("sms_payment_to_person", TC, Some("Zed"), N(1000), N(0)),
     Msg("sms_payment_to_person", TC, Some("Adam"), N(1000), N(0)),
     Msg("sms_payment_to_merchant", TC, None, N(1000), N(0)),
     Msg("sms_transfer_to_number", TD, Some("Adam"), None, None),
     Msg("sms_payment_to_merchant", TD, Some("Zed"), N(2000), N(50)),
     Msg("sms_received_from_momo", TD, Some("Zed"), N(5000), N(0))}

FilterMessages ==
    {Msg("sms_received_from_momo", TA, Some("Adam"), N(5000), N(50)),
     Msg("sms_payment_to_person", TB, Some("Zed"), N(1000), N(0)),
     Msg("sms_payment_to_merchant", TC, Some("Zed"), N(2000), None),
     Msg("sms_cash_power", TD, None, None, N(0)),
     Msg("sms_cash_tx", None, None, N(1000), N(0)),
     Msg("sms_promo", None, None, None, None)}

\* The rows from_json collects, for messages given by the fields the parser
\* extracted from them: one per message, in input order.
Rows(msgs) ==
    [i \in 1..Len(msgs) |->
        to_row(i, msgs[i].raw_type, msgs[i].ts, msgs[i].counterparty,
               msgs[i].amt, msgs[i].fee)]

\* from_json: the rows, then the constructor.
from_json(msgs) == MoMoAnalyzer(DataFrame(Rows(msgs)))

(***************************************************************************)
(* Object identity.  An object is named by how it was made; two references *)
(* are the same object exactly when their names are equal.                 *)
(***************************************************************************)
ArgRef == <<"arg">>

\* A plausible slip: no copy is taken (or a shallow one that shares the data).
copy_shared(obj) == obj

\* DataFrame.copy(): a new object with the contents of obj.
copy(obj) == <<"copy">> \o obj

\* df[mask], groupby(...).agg(...), a dict literal: always a new object.
Derived(obj) == <<"derived">> \o obj

\* self.df = df.copy()
SelfRef == copy(ArgRef)

\* The object each method returns.
transactions_ref == copy(SelfRef)
summary_ref == Derived(SelfRef)
period_summary_ref == Derived(copy(SelfRef))
top_counterparties_ref == Derived(copy(Derived(SelfRef)))
category_breakdown_ref == Derived(copy(Derived(SelfRef)))
filter_range_ref(start, end) ==
    LET d0 == copy(SelfRef)
        d1 == IF Truthy(start) THEN Derived(d0) ELSE d0
    IN  IF Truthy(end) THEN Derived(d1) ELSE d1

\* The caller's references that are the object self.df, given what ret refers to.
AliasOf(retRef) ==
    (IF ArgRef = SelfRef THEN {"passed"} ELSE {}) \cup (IF retRef = SelfRef THEN {"ret"} ELSE {})

\* What a caller does to a table it holds: table.drop(table.index, inplace=True)
\* or table["amount_rwf"] = 0.
MutationKinds == {"drop_rows", "zero_amount"}

ZeroAmount(r) == [r EXCEPT !.amount_rwf = Zero]

MutateFrame(t, kind) ==
    IF kind = "drop_rows" THEN [t EXCEPT !.rows = <<>>]
    ELSE [t EXCEPT !.rows = [i \in 1..Len(t.rows) |-> ZeroAmount(t.rows[i])]]

\* Non-empty batches: pd.DataFrame([]) has no columns and the constructor
\* fails on it before any ledger exists.
Batches(U) == UNION {[1..n -> U] : n \in 1..MaxLen}

PeriodArgs == Periods \cup {"day", "monthly", ""}
DirectionArgs == {"in", "out", "unknown"}
BoundArgs == {None, Some(""), Some("2024-12-30"), Some("2025-01-10 14:30:00"),
              Some("2025-02-01"), Some("soon"), Some("NaT")}

Idle == [op |-> "idle"]

\* Message bodies, identifiers and type tags handed to the parser.
Nines10 == "9999999999"
Nines50 == Nines10 \o Nines10 \o Nines10 \o Nines10 \o Nines10
Nines310 == Nines50 \o Nines50 \o Nines50 \o Nines50 \o Nines50 \o Nines50 \o Nines10

BodyReceived ==
    "You have received 5,000 RWF from Adam (250788123456) at 2025-01-10 14:30:00. Fee: 50 RWF. Balance: 20,000 RWF. TxId: 12345"
BodyFeeFirst == "Fee: 100 RWF. You have paid 2,000 RWF to Zed."
BodyBalanceOnly == "Your new balance: 5,000 RWF"
BodyPromo == "Promo: dial *182# to win"
BodySpaced == "  You  have\n paid\t2,000 RWF to Zed   Shop with token 55 "
BodyLabelsFirst == "Balance 700 RWF, Fee 20 RWF, sent 1.5 RWF to Adam,"
BodyRounded == "paid 9007199254740993 RWF on 2025-02-30 10:00:00"
BodyHuge == "paid " \o Nines310 \o " RWF"
BodyShort == "Received 5,000 RWF from Adam."

Bodies ==
    {BodyReceived, BodyFeeFirst, BodyBalanceOnly, BodyPromo, "", BodySpaced,
     BodyLabelsFirst, BodyRounded, BodyHuge, BodyShort}

MsgIds == {0 - 1, 0, 7}

KnownTags ==
    {"sms_received_from_momo", "sms_transfer_to_number", "sms_payment_to_person",
     "sms_payment_to_merchant", "sms_cash_power", "sms_cash_tx"}

TypeTags == KnownTags \cup {"sms_promo", "unknown", ""}

RawMsg(id, type, sms) == [id |-> id, type |-> type, sms |-> sms]

\* Well-formed messages, one with unmatchable text, and messages that lack
\* the body, the type or the identifier.
RawMessages ==
    {RawMsg(Some(1), Some("sms_received_from_momo"), Some(BodyShort)),
     RawMsg(Some(2), Some("sms_payment_to_person"), Some(BodyFeeFirst)),
     RawMsg(Some(3), Some("sms_promo"), Some(BodyPromo)),
     RawMsg(Some(4), Some("sms_cash_tx"), None),
     RawMsg(Some(5), None, Some(BodySpaced)),
     RawMsg(None, Some("sms_received_from_momo"), Some(BodyShort))}

Payloads == UNION {[1..n -> RawMessages] : n \in 0..MaxBatch}

\* The payload the observed analyzer was built from.
InitPayload ==
    <<RawMsg(Some(1), Some("sms_received_from_momo"), Some(BodyShort)),
      RawMsg(Some(2), Some("sms_payment_to_person"), Some(BodyFeeFirst))>>

(***************************************************************************)
(* The caller: one call at a time on the analyzer built by from_json.      *)
(***************************************************************************)
InitWith(U) ==
    /\ \E msgs \in Batches(U) :
          /\ df = from_json(msgs)
          /\ passed = IF ArgRef = SelfRef THEN df ELSE DataFrame(Rows(msgs))
    /\ call = Idle
    /\ ret = Ok(None)
    /\ alias = AliasOf(None)
    /\ df0 = df

Init == InitWith(SummaryMessages)
InitPeriod == InitWith(PeriodMessages)
InitTop == InitWith(TopMessages)
InitFilter == InitWith(FilterMessages)

Transactions ==
    /\ call = Idle
    /\ call' = [op |-> "transactions"]
    /\ ret' = Ok(transactions(df))
    /\ alias' = AliasOf(transactions_ref)
    /\ UNCHANGED <<df, passed, df0>>

Summary ==
    /\ call = Idle
    /\ call' = [op |-> "summary"]
    /\ ret' = Ok(summary(df))
    /\ alias' = AliasOf(summary_ref)
    /\ UNCHANGED <<df, passed, df0>>

PeriodSummary ==
    /\ call = Idle
    /\ \E period \in PeriodArgs :
        /\ call' = [op |-> "period_summary", period |-> period]
        /\ ret' = period_summary(df, period)
    /\ alias' = AliasOf(period_summary_ref)
    /\ UNCHANGED <<df, passed, df0>>

TopCounterparties ==
    /\ call = Idle
    /\ \E direction \in DirectionArgs, n \in 1..MaxN :
        /\ call' = [op |-> "top_counterparties", direction |-> direction, n |-> n]
        /\ \E t \in top_counterparties(df, direction, n) : ret' = Ok(t)
    /\ alias' = AliasOf(top_counterparties_ref)
    /\ UNCHANGED <<df, passed, df0>>

CategoryBreakdown ==
    /\ call = Idle
    /\ \E direction \in DirectionArgs :
        /\ call' = [op |-> "category_breakdown", direction |-> direction]
        /\ \E t \in category_breakdown(df, direction) : ret' = Ok(t)
    /\ alias' = AliasOf(category_breakdown_ref)
    /\ UNCHANGED <<df, passed, df0>>

FilterRange ==
    /\ call = Idle
    /\ \E start \in BoundArgs, end \in BoundArgs :
        /\ call' = [op |-> "filter_range", start |-> start, end |-> end]
        /\ ret' = filter_range(df, start, end)
        /\ alias' = IF ret'.status = "ok" THEN AliasOf(filter_range_ref(start, end))
                    ELSE AliasOf(None)
    /\ UNCHANGED <<df, passed, df0>>

\* A second analyzer built from the table filter_range returned, filtered
\* again with the same bounds.
FilterFiltered ==
    /\ call.op = "filter_range"
    /\ ret.status = "ok"
    /\ call' = [op |-> "filter_filtered", start |-> call.start, end |-> call.end,
                first |-> ret.value]
    /\ ret' = filter_range(MoMoAnalyzer(ret.value), call.start, call.end)
    /\ alias' = AliasOf(None)
    /\ UNCHANGED <<df, passed, df0>>

\* The caller is done with the result.
Return ==
    /\ call # Idle
    /\ call' = Idle
    /\ ret' = Ok(None)
    /\ alias' = AliasOf(None)
    /\ UNCHANGED <<df, passed, df0>>

\* The caller changes, in place, the table a method returned to it.
MutateReturned ==
    /\ call.op \in {"transactions", "filter_range"}
    /\ ret.status = "ok"
    /\ \E kind \in MutationKinds :
        /\ call' = [op |-> "mutated", of |-> call.op, kind |-> kind]
        /\ ret' = Ok(MutateFrame(ret.value, kind))
        /\ df' = IF "ret" \in alias THEN ret'.value ELSE df
    /\ UNCHANGED <<passed, alias, df0>>

\* The caller empties, in place, the aggregate table a method returned to it.
MutateAggregate ==
    /\ call.op \in {"period_summary", "top_counterparties", "category_breakdown"}
    /\ ret.status = "ok"
    /\ call' = [op |-> "mutated", of |-> call.op, kind |-> "drop_rows"]
    /\ ret' = Ok(<<>>)
    /\ df' = IF "ret" \in alias THEN [df EXCEPT !.rows = <<>>] ELSE df
    /\ UNCHANGED <<passed, alias, df0>>

\* The caller changes, in place, the table it built the analyzer from.
MutateArg ==
    /\ call = Idle
    /\ passed.rows # <<>>
    /\ passed' = MutateFrame(passed, "drop_rows")
    /\ df' = IF "passed" \in alias THEN passed' ELSE df
    /\ UNCHANGED <<call, ret, alias, df0>>

Next ==
    \/ MutateReturned
    \/ MutateAggregate
    \/ MutateArg
    \/ Transactions
    \/ Summary
    \/ PeriodSummary
    \/ TopCounterparties
    \/ CategoryBreakdown
    \/ FilterRange
    \/ FilterFiltered
    \/ Return

Spec == Init /\ [][Next]_vars
SpecPeriod == InitPeriod /\ [][Next]_vars
SpecTop == InitTop /\ [][Next]_vars
SpecFilter == InitFilter /\ [][Next]_vars

(***************************************************************************)
(* The parser and the loader, called on their own.                         *)
(***************************************************************************)
InitParse ==
    /\ df = from_json_payload(InitPayload).value
    /\ passed = IF ArgRef = SelfRef THEN df
                ELSE DataFrame(PayloadRows(InitPayload).value)
    /\ call = Idle
    /\ ret = Ok(None)
    /\ alias = AliasOf(None)
    /\ df0 = df

ParseMessage ==
    /\ call = Idle
    /\ \E msg_id \in MsgIds, raw_type \in TypeTags, sms \in Bodies :
        /\ call' = [op |-> "parse_message", msg_id |-> msg_id,
                    raw_type |-> raw_type, sms |-> sms]
        /\ ret' = parse_message(msg_id, raw_type, sms)
    /\ alias' = AliasOf(None)
    /\ UNCHANGED <<df, passed, df0>>

\* from_json is a static method: it returns a new analyzer and leaves the
\* one already built alone.
FromJson ==
    /\ call = Idle
    /\ \E payload \in Payloads :
        /\ call' = [op |-> "from_json", payload |-> payload]
        /\ ret' = from_json_payload(payload)
    /\ alias' = AliasOf(None)
    /\ UNCHANGED <<df, passed, df0>>

NextParse ==
    \/ ParseMessage
    \/ FromJson
    \/ Return

SpecParse == InitParse /\ [][NextParse]_vars

(***************************************************************************)
(* Properties.  Sums on the property side are exact integer sums.          *)
(***************************************************************************)
RECURSIVE ExactSumFrom(_, _)
ExactSumFrom(vals, i) ==
    IF i > Len(vals) THEN Zero
    ELSE NAdd(IF IsNull(vals[i]) THEN Zero ELSE vals[i], ExactSumFrom(vals, i + 1))

ExactSum(vals) == ExactSumFrom(vals, 1)

\* Sum of amountRwf over the ledger's records of one direction.
ExactAmount(rows, direction) ==
    ExactSum(Column(SelectSeq(rows, LAMBDA r : r.direction = direction), "amount_rwf"))

\* Every amount and fee of the ledger is far below 2^53.
SmallLedger ==
    \A i \in 1..Len(df.rows) :
        /\ IsNull(df.rows[i].amount_rwf) \/ df.rows[i].amount_rwf[1] = 0
        /\ IsNull(df.rows[i].fee_rwf) \/ df.rows[i].fee_rwf[1] = 0

NetIdentity(s) ==
    s.net_rwf = NSub(NSub(s.total_in_rwf, s.total_out_rwf), s.total_fees_rwf)

\* C1: for any ledger the dictionary summary() returns satisfies
\* net == totalIn - totalOut - totalFees exactly, on the returned integers.
C1_NetIdentity ==
    call.op = "summary" => NetIdentity(ret.value)

\* The identity of C1 for ledgers whose amounts and fees are below 2^53.
C1_NetIdentitySmall ==
    (call.op = "summary" /\ SmallLedger) => NetIdentity(ret.value)

SummaryTotals(s) ==
    /\ s.total_in_rwf = ExactAmount(df.rows, "in")
    /\ s.total_out_rwf = ExactAmount(df.rows, "out")
    /\ s.total_fees_rwf = ExactSum(Column(df.rows, "fee_rwf"))
    /\ s.tx_count = Len(df.rows)

\* C2: summary() returns totalIn = sum of amountRwf over the in records,
\* totalOut = that sum over the out records, totalFees = sum of feeRwf over all
\* records, txCount = the number of records; an absent value contributes 0.
C2_SummaryTotals ==
    call.op = "summary" => SummaryTotals(ret.value)

\* The totals of C2 for ledgers whose amounts and fees are below 2^53.
C2_SummaryTotalsSmall ==
    (call.op = "summary" /\ SmallLedger) => SummaryTotals(ret.value)

NoAbsentTimestamp == \A i \in 1..Len(df.rows) : ~IsNull(df.rows[i].timestamp)

PeriodCallOk == call.op = "period_summary" /\ ret.status = "ok"

IncomeMatchesSummary ==
    ExactSum(Column(ret.value, "income_rwf")) = summary(df).total_in_rwf

\* C3: for every period in {week, month, year} and every ledger without an
\* absent timestamp, the incomeRwf of the rows of periodSummary(period) sum to
\* summary().totalIn.
C3_PeriodIncomeIsTotalIn ==
    (PeriodCallOk /\ NoAbsentTimestamp) => IncomeMatchesSummary

\* The equality of C3 for ledgers whose amounts and fees are below 2^53.
C3_PeriodIncomeIsTotalInSmall ==
    (PeriodCallOk /\ NoAbsentTimestamp /\ SmallLedger) => IncomeMatchesSummary

RECURSIVE CountSum(_, _)
CountSum(t, i) == IF i > Len(t) THEN 0 ELSE t[i].tx_count + CountSum(t, i + 1)

RowNetIdentity(t) ==
    \A i \in 1..Len(t) :
        t[i].net_rwf = NSub(NSub(t[i].income_rwf, t[i].expense_rwf), t[i].fees_rwf)

\* C4: periodSummary(period) drops no record (records without a timestamp form
\* a row of their own): the txCount values sum to the number of records, and
\* each row's netRwf equals its incomeRwf - expenseRwf - feesRwf.
C4_NoRecordDroppedAndRowNet ==
    PeriodCallOk => (CountSum(ret.value, 1) = Len(df.rows) /\ RowNetIdentity(ret.value))

\* The first half of C4 alone: no record is dropped.
C4_NoRecordDropped ==
    PeriodCallOk => CountSum(ret.value, 1) = Len(df.rows)

\* The second half of C4 for ledgers whose amounts and fees are below 2^53.
C4_RowNetSmall ==
    (PeriodCallOk /\ SmallLedger) => RowNetIdentity(ret.value)

\* C5: periodSummary with a period other than week, month or year fails with
\* an invalid-argument error, returns no table and leaves the ledger unchanged.
C5_InvalidPeriodRejected ==
    [][(call'.op = "period_summary" /\ call'.period \notin {"week", "month", "year"})
        => (ret'.status = "ValueError" /\ ret'.value = None /\ df' = df)]_vars

C5_Witness ==
    /\ call.op = "period_summary"
    /\ call.period = "monthly"
    /\ ret.status = "ValueError"
    /\ Len(df.rows) = MaxLen

TopCall == call.op = "top_counterparties" /\ ret.status = "ok"

\* The counterparty labels of the records of the call's direction.
CalledLabels ==
    {LabelOf(r, "counterparty", "Unknown") :
        r \in {df.rows[i] : i \in {j \in 1..Len(df.rows) : df.rows[j].direction = call.direction}}}

FirstSeen(label) ==
    CHOOSE i \in 1..Len(df.rows) :
        /\ df.rows[i].direction = call.direction
        /\ LabelOf(df.rows[i], "counterparty", "Unknown") = label
        /\ \A j \in 1..(i - 1) :
              ~(df.rows[j].direction = call.direction
                /\ LabelOf(df.rows[j], "counterparty", "Unknown") = label)

\* Exact sum of the amounts of one counterparty in the call's direction.
LabelTotal(label) ==
    ExactSum(Column(SelectSeq(df.rows,
        LAMBDA r : r.direction = call.direction
                   /\ LabelOf(r, "counterparty", "Unknown") = label), "amount_rwf"))

\* C7: among counterparties with equal sums the one first seen earlier in the
\* ledger is listed first, and that order decides which of them survive the
\* truncation to n rows.
C7_TiesByFirstSeen ==
    TopCall =>
        /\ \A i, j \in 1..Len(ret.value) :
              (i < j /\ ret.value[i].amount_rwf = ret.value[j].amount_rwf)
                  => FirstSeen(ret.value[i].label) < FirstSeen(ret.value[j].label)
        /\ \A i \in 1..Len(ret.value) :
              \A l \in CalledLabels \ {ret.value[k].label : k \in 1..Len(ret.value)} :
                  LabelTotal(l) = ret.value[i].amount_rwf
                      => FirstSeen(ret.value[i].label) < FirstSeen(l)

\* The texts of the model that denote a date/time, with their values.
DateTexts == {"2024-12-30", "2025-01-10 14:30:00", "2025-02-01"}

DateValue(text) ==
    CASE text = "2024-12-30"          -> ToDatetime(<<2024, 12, 30, 0, 0, 0>>)
      [] text = "2025-01-10 14:30:00" -> ToDatetime(<<2025, 1, 10, 14, 30, 0>>)
      [] text = "2025-02-01"          -> ToDatetime(<<2025, 2, 1, 0, 0, 0>>)

IsDate(arg) == ~IsNull(arg) /\ arg[1] \in DateTexts

\* What C8 asks of one record under the call's bounds.
InRange(r, start, end) ==
    /\ IsDate(start) => (~IsNull(r.timestamp) /\ r.timestamp[1] >= DateValue(start[1]))
    /\ IsDate(end) => (~IsNull(r.timestamp) /\ r.timestamp[1] <= DateValue(end[1]))

\* C8: filterRange(start, end) returns, in ledger order, exactly the records
\* with timestamp >= start (when given) and <= end (when given), bounds
\* inclusive; a record without a timestamp is excluded as soon as one bound is
\* given, and without bounds every record is returned unmodified.
C8_FilterRangeExact ==
    (/\ call.op = "filter_range"
     /\ IsNull(call.start) \/ IsDate(call.start)
     /\ IsNull(call.end) \/ IsDate(call.end))
        => /\ ret.status = "ok"
           /\ ret.value.rows = SelectSeq(df.rows, LAMBDA r : InRange(r, call.start, call.end))

\* Both bounds given; a record exactly on the end bound is kept, a record
\* without a timestamp and a record outside the range are left out.
C8_Witness ==
    /\ call.op = "filter_range"
    /\ IsDate(call.start) /\ IsDate(call.end)
    /\ ret.status = "ok"
    /\ \E i \in 1..Len(ret.value.rows) :
          ret.value.rows[i].timestamp = Some(DateValue(call.end[1]))
    /\ \E i \in 1..Len(df.rows) : IsNull(df.rows[i].timestamp)
    /\ \E i \in 1..Len(df.rows) :
          ~IsNull(df.rows[i].timestamp) /\ df.rows[i].timestamp[1] < DateValue(call.start[1])

\* C9: filterRange is idempotent: a ledger built from the table
\* filterRange(start, end) returned, filtered with the same bounds, gives the
\* same table (same records, same order).
C9_FilterIdempotent ==
    call.op = "filter_filtered" =>
        /\ ret.status = "ok"
        /\ ret.value.rows = call.first.rows

\* The first filter removed some records and kept others.
C9_Witness ==
    /\ call.op = "filter_filtered"
    /\ ret.status = "ok"
    /\ Len(ret.value.rows) >= 1
    /\ Len(ret.value.rows) < Len(df.rows)
    /\ IsDate(call.start)

\* A bound that is supplied and is not the text of a date/time.
Unparsable(arg) == ~IsNull(arg) /\ arg[1] \notin DateTexts

\* C10: filterRange fails with an invalid-argument error whenever a supplied
\* bound string cannot be parsed as a date/time, the empty string included,
\* and the ledger is unchanged after the failure.
C10_UnparsableBoundRejected ==
    [][(call'.op = "filter_range" /\ (Unparsable(call'.start) \/ Unparsable(call'.end)))
        => (ret'.status = "ValueError" /\ df' = df)]_vars

\* A supplied bound the date/time parser rejects: it is not the empty string
\* (taken as no bound) and not a missing-value marker (parsed to NaT).
Rejected(arg) == Unparsable(arg) /\ arg[1] \notin {"", "NaT"}

\* C10 as amended: filterRange fails with an invalid-argument error exactly
\* when a supplied bound is a non-empty string that the date/time parser
\* rejects; the empty string is taken as no bound and a missing-value marker
\* such as "NaT" as a null bound, neither fails; the ledger is unchanged.
C10_RejectedBoundRaises ==
    [][call'.op = "filter_range"
        => /\ (ret'.status = "ValueError") <=> (Rejected(call'.start) \/ Rejected(call'.end))
           /\ ret'.status \in {"ok", "ValueError"}
           /\ df' = df]_vars

\* The start bound parses and the end bound is rejected.
C10_Witness ==
    /\ call.op = "filter_range"
    /\ IsDate(call.start)
    /\ call.end = Some("soon")
    /\ ret.status = "ValueError"
    /\ Len(df.rows) >= 2

(***************************************************************************)
(* C11: the ledger is read-only after construction.                        *)
(***************************************************************************)

\* C11: whatever calls have been made, and however the caller has changed the
\* tables those calls returned or the table it passed to the constructor, the
\* ledger's rows (records and derived fields) and column types are those it had
\* right after construction.
C11_LedgerReadOnly == df = df0

\* The caller has emptied the table it built the analyzer from and has
\* overwritten the amounts of a table transactions() returned to it.
C11_Witness ==
    /\ call.op = "mutated"
    /\ call.of = "transactions"
    /\ call.kind = "zero_amount"
    /\ ret.value # df0
    /\ passed.rows = <<>>
    /\ df0.rows # <<>>

(***************************************************************************)
(* C12: the direction and the category of a parsed message.                *)
(***************************************************************************)
Directions == {"in", "out", "unknown"}
Categories == {"transfer", "merchant", "utilities", "cash", "other"}

\* C12: every record parse_message returns has a direction in {in, out,
\* unknown} and a category in {transfer, merchant, utilities, cash, other},
\* and a type tag that is not one of the six known tags gives (unknown, other).
C12_DirectionAndCategory ==
    (call.op = "parse_message" /\ ret.status = "ok") =>
        /\ ret.value.direction \in Directions
        /\ ret.value.category \in Categories
        /\ call.raw_type \notin KnownTags =>
               ret.value.direction = "unknown" /\ ret.value.category = "other"

\* A message with a tag outside the table and a body that has an amount.
C12_Witness ==
    /\ call.op = "parse_message"
    /\ call.raw_type = "sms_promo"
    /\ call.sms = BodyReceived
    /\ ret.status = "ok"
    /\ ret.value.direction = "unknown"
    /\ ret.value.category = "other"

(***************************************************************************)
(* C13: loading a batch of raw messages.                                   *)
(***************************************************************************)
HasIds(payload) == \A i \in 1..Len(payload) : ~IsNull(payload[i].id)

\* The i-th record is the i-th message: its identifier and its type tag.
InInputOrder(rows, payload) ==
    /\ Len(rows) = Len(payload)
    /\ \A i \in 1..Len(payload) :
           /\ ~IsNull(payload[i].id) => rows[i].msg_id = payload[i].id[1]
           /\ ~IsNull(payload[i].type) => rows[i].raw_type = payload[i].type[1]

\* C13: from_json on a batch of N messages gives a ledger of N records, one
\* per message and in input order, also when a message has unmatchable text
\* or lacks its identifier or its body.
C13_EveryMessageIngested ==
    call.op = "from_json" =>
        ret.status = "ok" /\ InInputOrder(ret.value.rows, call.payload)

\* What the loader does keep: a non-empty batch whose messages all have an
\* identifier is ingested whole, in input order, whatever the bodies are.
C13_IngestedWhenIdentified ==
    (call.op = "from_json" /\ call.payload # <<>> /\ HasIds(call.payload)) =>
        ret.status = "ok" /\ InInputOrder(ret.value.rows, call.payload)

\* A message without identifier aborts the batch it is in.
C13_AbortedBatch ==
    /\ call.op = "from_json"
    /\ Len(call.payload) = 2
    /\ ~IsNull(call.payload[1].id)
    /\ IsNull(call.payload[2].id)
    /\ ret.status = "TypeError"

(***************************************************************************)
(* C14: which number+RWF occurrence is the amount.                         *)
(***************************************************************************)
\* Where the number of a "Fee <x> RWF" or "Balance <y> RWF" phrase starts.
LabelledStarts(s) ==
    {FeeAt(s, i)[1].start : i \in {j \in 1..Len(s) : ~IsNull(FeeAt(s, j))}}
    \cup {BalanceAt(s, i)[1].start : i \in {j \in 1..Len(s) : ~IsNull(BalanceAt(s, j))}}

\* The first number+RWF occurrence that is not the number of such a phrase.
UnlabelledAmount(s) ==
    CHOOSE m \in {IF i = 0 THEN None ELSE NumberAt(s, i) :
                     i \in {Leftmost({j \in 1..Len(s) : ~IsNull(NumberAt(s, j))}
                                     \ LabelledStarts(s))}} : TRUE

\* C14: amount_rwf is the first number+RWF occurrence of the normalised body
\* that is not preceded by Fee or Balance; it is never the number of a fee or
\* balance phrase, and it is absent when the body has no other amount.
C14_AmountSkipsFeeAndBalance ==
    (call.op = "parse_message" /\ ret.status = "ok") =>
        ret.value.amount_rwf = Extracted(UnlabelledAmount(Normalise(call.sms))).value

\* The fee phrase comes first in the body, and its number became the amount.
C14_FeeTakenAsAmount ==
    /\ call.op = "parse_message"
    /\ call.sms = BodyFeeFirst
    /\ ret.status = "ok"
    /\ ret.value.amount_rwf = N(100)
    /\ ret.value.fee_rwf = N(100)

====
